---- MODULE Spec2Model ----
(***************************************************************************)
(* Verification model of the trybuild test orchestration core:             *)
(*   src/src/flock.rs  the two-layer Lock (mutex + lock file + heartbeat)  *)
(*   src/src/lib.rs    Runner::run / run_all and Test::check_*,            *)
(*                     ExpandedTestSet and Runner::expand_globs            *)
(*   src/src/env.rs    Update::env                                         *)
(*   src/src/diff.rs   Diff::compute                                       *)
(* Time is counted in milliseconds and advances in steps of Quantum.       *)
(***************************************************************************)
EXTENDS Integers, Sequences, FiniteSets, TLC

(***************************************************************************)
(* Topology of the lock model: t1 and t2 are #[test] threads of one test   *)
(* binary (they share the static LOCK mutex), u1 is a thread of another    *)
(* test binary working in the same directory (same lock file path).        *)
(***************************************************************************)
Acq == {"t1", "t2", "u1"}
Procs == {"P", "Q"}
ProcOf(a) == IF a = "u1" THEN "Q" ELSE "P"
None == "none"

\* flock.rs constants (milliseconds)
StaleWindow == 1500
FutureWindow == 1500
Backoff == 500
PollInterval == 500

\* granularity of the clock and the range of file ages the model tracks
Quantum == Backoff
AgeCap == StaleWindow + FutureWindow + Quantum
AgeFloor == 0 - (FutureWindow + Quantum)
DoneAgeCap == PollInterval + Quantum

VARIABLES
    \* ---- flock.rs ----
    lockfile,     \* the lock file path: [exists, age] with age = now - mtime
    lpc,          \* position of each acquirer inside Lock::acquire / drop
    timer,        \* remaining sleep of an acquirer in create()
    flock,        \* the FileLock value of each acquirer's Lock
    done,         \* the Arc<AtomicBool> shared with the heartbeat thread
    hb,           \* position of each acquirer's poll() thread
    hbTimer,      \* remaining sleep of the poll() thread
    handle,       \* does the acquirer's File handle refer to the inode now at path
    via,          \* how create() returned: "new", "stolen", "degraded" or none
    mutexOwner,   \* per process: the thread holding the static LOCK mutex
    poisoned,     \* per process: the mutex poison flag
    removeRes,    \* what fs::remove_file returned in the acquirer's FileLock drop
    unwinding,    \* is the acquirer's thread panicking while its Lock is dropped
    doneAge,      \* time since done.store(true) while the poll() thread still runs
    \* ---- lib.rs: Runner::run, run by thread Runner ----
    rpc,          \* position inside Runner::run
    tests,        \* the expanded tests (after expand_globs and filter)
    envVar,       \* value of the TRYBUILD environment variable
    cwdOk,        \* does std::env::current_dir() succeed
    project,      \* the Project built by prepare()
    idx,          \* run_all: index of the next test of the for loop
    raReport,     \* run_all: its local Report
    report,       \* run: its Report
    verdict,      \* how run ends: "ok" (returns) or "panic"
    fs,           \* snapshot files and the wip directory
    outcomes,     \* per processed test, what it ended in
    work,         \* driver invocations, artifact executions and snapshot writes
    missing,      \* the tests whose file did not exist when run_all came to them
    acquires,     \* number of Lock::acquire calls made by run
    \* ---- the environment of a run ----
    script,       \* what the file system, cargo and the driver answer to the next
                  \* test, when that is fixed in advance (SpecFixture)
    \* ---- lib.rs: Runner::expand_globs, run twice on the same input ----
    intents,      \* self.tests: the declared Tests, in declaration order
    files,        \* the fixture directory: [present, readable]
    ip,           \* expand_globs: index of the next intent of the for loop
    epc,          \* expand_globs: "intent", "insert" (inside a glob's loop), "done"
    walk,         \* first expansion: the latest glob's paths as the directory walk
                  \* yielded them
    walkB,        \* second expansion: the same
    pending,      \* first expansion: the glob's paths not inserted yet
    pendingB,     \* second expansion: the same
    set,          \* first expansion: the ExpandedTestSet [vec, path_to_index]
    setB,         \* second expansion: the same
    \* ---- diff.rs: Diff::compute ----
    diffIn,       \* the call: what dissimilar::diff does on (expected, actual)
    diffOut,      \* what compute returned: "Some", "None", or none before the call
    \* ---- lib.rs: impl Drop for TestCases ----
    dpc,          \* position inside drop: "start", "first", "second", "done"
                  \* ("idle" where drop is not what is followed)
    codegen,      \* the backend passed to the run in progress
    threadPanicking,  \* thread::panicking() when drop is entered
    runs          \* the runs of drop that are over, in order

lockVars == <<lockfile, lpc, timer, flock, done, hb, hbTimer, handle, via,
              mutexOwner, poisoned, removeRes, unwinding, doneAge>>

runVars == <<rpc, tests, envVar, cwdOk, project, idx, raReport, report, verdict,
             outcomes, work, missing, acquires>>

expVars == <<intents, files, ip, epc, walk, walkB, pending, pendingB, set, setB>>

diffVars == <<diffIn, diffOut>>

dropVars == <<dpc, codegen, threadPanicking, runs>>

vars == <<lockVars, runVars, fs, script, expVars, diffVars, dropVars>>

Max(x, y) == IF x >= y THEN x ELSE y
Min(x, y) == IF x <= y THEN x ELSE y

NoFile == [exists |-> FALSE, age |-> 0]
FreshFile == [exists |-> TRUE, age |-> 0]

\* flock.rs:118-121  modified < now - 1500 || now + 1500 < modified
IsStaleMutNever(age) == age < 0 - FutureWindow
IsStale(age) == age > StaleWindow \/ age < 0 - FutureWindow

\* outcomes of a filesystem call: success, or an error of some other kind
IoResults == {"ok", "err"}

(***************************************************************************)
(* Lock::acquire, flock.rs:38-67                                           *)
(***************************************************************************)

\* Guard::acquire: lock the process-wide mutex, ignoring poison.
MutexAvailable(p) == mutexOwner[p] = None

\* Mutex::lock(): Ok(guard), or Err(PoisonError(guard)) on a poisoned mutex
LockResult(p) == IF poisoned[p] THEN "Poisoned" ELSE "Ok"

\* flock.rs:47  .unwrap_or_else(PoisonError::into_inner): the guard either
\* way ("panic" is what .unwrap() makes of a PoisonError)
Unwrap(res) == IF res = "Poisoned" THEN "panic" ELSE "guard"
UnwrapOrIntoInner(res) == "guard"

Guard_acquire(a) ==
    /\ lpc[a] = "guard"
    /\ MutexAvailable(ProcOf(a))
    /\ IF UnwrapOrIntoInner(LockResult(ProcOf(a))) = "guard"
       THEN /\ mutexOwner' = [mutexOwner EXCEPT ![ProcOf(a)] = a]
            /\ lpc' = [lpc EXCEPT ![a] = "open"]
       ELSE /\ lpc' = [lpc EXCEPT ![a] = "failed"]
            /\ UNCHANGED mutexOwner
    /\ UNCHANGED <<lockfile, timer, flock, done, hb, hbTimer, handle, via, poisoned>>
    /\ UNCHANGED <<removeRes, unwinding, doneAge>>

\* create() returned None: FileLock::NotLocked, the Lock is held without file layer
DegradeAsLocked(a) ==
    /\ lpc' = [lpc EXCEPT ![a] = "held"]
    /\ via' = [via EXCEPT ![a] = "degraded"]
    /\ flock' = [flock EXCEPT ![a] = "Locked"]
    /\ UNCHANGED <<done, hb, hbTimer, mutexOwner, poisoned>>
Degrade(a) ==
    /\ lpc' = [lpc EXCEPT ![a] = "held"]
    /\ via' = [via EXCEPT ![a] = "degraded"]
    /\ UNCHANGED <<flock, done, hb, hbTimer, mutexOwner, poisoned>>

\* create(): OpenOptions::new().write(true).create_new(true).open(path)
create_open(a) ==
    /\ lpc[a] = "open"
    /\ \E r \in IoResults :
         IF r = "err"
         THEN /\ Degrade(a)
              /\ UNCHANGED <<lockfile, timer, handle>>
         ELSE IF lockfile.exists
         THEN /\ lpc' = [lpc EXCEPT ![a] = "meta"]
              /\ UNCHANGED <<lockfile, timer, flock, done, hb, hbTimer, handle, via,
                             mutexOwner, poisoned>>
         ELSE /\ lockfile' = FreshFile
              /\ handle' = [handle EXCEPT ![a] = TRUE]
              /\ via' = [via EXCEPT ![a] = "new"]
              /\ lpc' = [lpc EXCEPT ![a] = "spawn"]
              /\ UNCHANGED <<timer, flock, done, hb, hbTimer, mutexOwner, poisoned>>
    /\ UNCHANGED <<removeRes, unwinding, doneAge>>

\* create(): fs::metadata, metadata.modified, the staleness test
create_metadata(a) ==
    /\ lpc[a] = "meta"
    /\ \E r \in IoResults :
         IF r = "err"
         THEN /\ Degrade(a)
              /\ UNCHANGED <<lockfile, timer, handle>>
         ELSE IF ~lockfile.exists
         THEN /\ lpc' = [lpc EXCEPT ![a] = "open"]
              /\ UNCHANGED <<lockfile, timer, flock, done, hb, hbTimer, handle, via,
                             mutexOwner, poisoned>>
         ELSE IF IsStale(lockfile.age)
         THEN /\ lpc' = [lpc EXCEPT ![a] = "steal"]
              /\ UNCHANGED <<lockfile, timer, flock, done, hb, hbTimer, handle, via,
                             mutexOwner, poisoned>>
         ELSE /\ lpc' = [lpc EXCEPT ![a] = "sleep"]
              /\ timer' = [timer EXCEPT ![a] = Backoff]
              /\ UNCHANGED <<lockfile, flock, done, hb, hbTimer, handle, via,
                             mutexOwner, poisoned>>
    /\ UNCHANGED <<removeRes, unwinding, doneAge>>

\* create(): return File::create(path).ok()
create_steal(a) ==
    /\ lpc[a] = "steal"
    /\ \E r \in IoResults :
         IF r = "err"
         THEN /\ Degrade(a)
              /\ UNCHANGED <<lockfile, timer, handle>>
         ELSE /\ lockfile' = FreshFile
              /\ handle' = [handle EXCEPT ![a] = TRUE]
              /\ via' = [via EXCEPT ![a] = "stolen"]
              /\ lpc' = [lpc EXCEPT ![a] = "spawn"]
              /\ UNCHANGED <<timer, flock, done, hb, hbTimer, mutexOwner, poisoned>>
    /\ UNCHANGED <<removeRes, unwinding, doneAge>>

\* create(): thread::sleep(500ms) is over, loop
create_wake(a) ==
    /\ lpc[a] = "sleep"
    /\ timer[a] = 0
    /\ lpc' = [lpc EXCEPT ![a] = "open"]
    /\ UNCHANGED <<lockfile, timer, flock, done, hb, hbTimer, handle, via,
                   mutexOwner, poisoned>>
    /\ UNCHANGED <<removeRes, unwinding, doneAge>>

\* FileLock::acquire: spawn the heartbeat thread; a spawn error is returned by
\* Lock::acquire, which drops the lock File and the Guard already taken.
FileLock_spawn(a) ==
    /\ lpc[a] = "spawn"
    /\ \E r \in IoResults :
         IF r = "ok"
         THEN /\ flock' = [flock EXCEPT ![a] = "Locked"]
              /\ done' = [done EXCEPT ![a] = FALSE]
              /\ hb' = [hb EXCEPT ![a] = "sleep"]
              /\ hbTimer' = [hbTimer EXCEPT ![a] = PollInterval]
              /\ lpc' = [lpc EXCEPT ![a] = "held"]
              /\ UNCHANGED <<lockfile, timer, handle, via, mutexOwner, poisoned>>
         ELSE /\ handle' = [handle EXCEPT ![a] = FALSE]
              /\ mutexOwner' = [mutexOwner EXCEPT ![ProcOf(a)] = None]
              /\ lpc' = [lpc EXCEPT ![a] = "failed"]
              /\ UNCHANGED <<lockfile, timer, flock, done, hb, hbTimer, via, poisoned>>
    /\ UNCHANGED <<removeRes, unwinding, doneAge>>

(***************************************************************************)
(* poll(), flock.rs:130-138                                                *)
(***************************************************************************)

\* a poll() that goes on to set_len(0) whatever done.load returned
poll_loadIgnoresDone(a) ==
    /\ hb[a] = "sleep"
    /\ hbTimer[a] = 0
    /\ hb' = [hb EXCEPT ![a] = "set_len"]
    /\ UNCHANGED handle
    /\ UNCHANGED <<lockfile, lpc, timer, flock, done, hbTimer, via, mutexOwner, poisoned>>
    /\ UNCHANGED doneAge
    /\ UNCHANGED <<removeRes, unwinding>>

\* sleep is over: done.load(Acquire)
poll_load(a) ==
    /\ hb[a] = "sleep"
    /\ hbTimer[a] = 0
    /\ hb' = [hb EXCEPT ![a] = IF done[a] THEN "exited" ELSE "set_len"]
    /\ handle' = [handle EXCEPT ![a] = IF done[a] THEN FALSE ELSE @]
    /\ UNCHANGED <<lockfile, lpc, timer, flock, done, hbTimer, via, mutexOwner, poisoned>>
    /\ doneAge' = [doneAge EXCEPT ![a] = IF done[a] THEN 0 ELSE @]
    /\ UNCHANGED <<removeRes, unwinding>>

\* lockfile.set_len(0): bumps the mtime of the inode the handle refers to
poll_set_len(a) ==
    /\ hb[a] = "set_len"
    /\ \E r \in IoResults :
         IF r = "ok"
         THEN /\ lockfile' = IF handle[a] /\ lockfile.exists THEN FreshFile ELSE lockfile
              /\ hb' = [hb EXCEPT ![a] = "sleep"]
              /\ hbTimer' = [hbTimer EXCEPT ![a] = PollInterval]
              /\ UNCHANGED <<handle, doneAge>>
         ELSE /\ hb' = [hb EXCEPT ![a] = "exited"]
              /\ handle' = [handle EXCEPT ![a] = FALSE]
              /\ doneAge' = [doneAge EXCEPT ![a] = 0]
              /\ UNCHANGED <<lockfile, hbTimer>>
    /\ UNCHANGED <<lpc, timer, flock, done, via, mutexOwner, poisoned>>
    /\ UNCHANGED <<removeRes, unwinding>>

(***************************************************************************)
(* impl Drop for Lock / FileLock, flock.rs:69-88                           *)
(***************************************************************************)

\* the Lock goes out of scope (panicking tells whether by unwinding)
StartDropGuardFirst(a, panicking) ==
    /\ lpc[a] = "held"
    /\ lpc' = [lpc EXCEPT ![a] = IF flock[a] = "Locked" THEN "dropStore" ELSE "dropGuard"]
    /\ unwinding' = [unwinding EXCEPT ![a] = panicking]
    /\ mutexOwner' = [mutexOwner EXCEPT ![ProcOf(a)] = None]
    /\ UNCHANGED <<lockfile, timer, flock, done, hb, hbTimer, handle, via, poisoned,
                   removeRes, doneAge>>
StartDrop(a, panicking) ==
    /\ lpc[a] = "held"
    /\ lpc' = [lpc EXCEPT ![a] = IF flock[a] = "Locked" THEN "dropStore" ELSE "dropGuard"]
    /\ unwinding' = [unwinding EXCEPT ![a] = panicking]
    /\ UNCHANGED <<lockfile, timer, flock, done, hb, hbTimer, handle, via, mutexOwner,
                   poisoned>>
    /\ UNCHANGED <<removeRes, doneAge>>

\* done.store(true, Release)
FileLock_drop_store(a) ==
    /\ lpc[a] = "dropStore"
    /\ done' = [done EXCEPT ![a] = TRUE]
    /\ lpc' = [lpc EXCEPT ![a] = "dropRemove"]
    /\ UNCHANGED <<lockfile, timer, flock, hb, hbTimer, handle, via, mutexOwner, poisoned>>
    /\ UNCHANGED <<removeRes, unwinding, doneAge>>

\* let _ = fs::remove_file(path): unlinks whatever file is at the path
FileLock_drop_remove(a) ==
    /\ lpc[a] = "dropRemove"
    /\ \E r \in IoResults :
         /\ IF r = "ok" /\ lockfile.exists
            THEN /\ lockfile' = NoFile
                 /\ handle' = [b \in Acq |-> FALSE]
            ELSE UNCHANGED <<lockfile, handle>>
         /\ removeRes' = [removeRes EXCEPT ![a] = IF lockfile.exists THEN r ELSE "err"]
    /\ UNCHANGED <<unwinding, doneAge>>
    /\ flock' = [flock EXCEPT ![a] = "NotLocked"]
    /\ lpc' = [lpc EXCEPT ![a] = "dropGuard"]
    /\ UNCHANGED <<timer, done, hb, hbTimer, via, mutexOwner, poisoned>>

\* *intraprocess_guard = Guard::NotLocked: the MutexGuard is dropped, which
\* poisons the mutex when the thread is panicking
Lock_drop_guard(a) ==
    /\ lpc[a] = "dropGuard"
    /\ mutexOwner' = [mutexOwner EXCEPT ![ProcOf(a)] = None]
    /\ poisoned' = [poisoned EXCEPT ![ProcOf(a)] = @ \/ unwinding[a]]
    /\ lpc' = [lpc EXCEPT ![a] = "released"]
    /\ UNCHANGED <<lockfile, timer, flock, done, hb, hbTimer, handle, via>>
    /\ UNCHANGED <<removeRes, unwinding, doneAge>>

(***************************************************************************)
(* Environment of the lock: callers, process death, the clock              *)
(***************************************************************************)

\* a thread calls Lock::acquire(path)
Begin(a) ==
    /\ lpc[a] = "idle"
    /\ lpc' = [lpc EXCEPT ![a] = "guard"]
    /\ UNCHANGED <<lockfile, timer, flock, done, hb, hbTimer, handle, via, mutexOwner,
                   poisoned>>
    /\ UNCHANGED <<removeRes, unwinding, doneAge>>

\* the holder leaves the scope of its Lock, normally or by a panic
End(a) == \E panicking \in BOOLEAN : StartDrop(a, panicking)

\* the operating system process p is killed: no destructor runs, its threads
\* (heartbeats included) stop, its lock file stays behind
Crash(p) ==
    /\ \E a \in Acq : ProcOf(a) = p /\ lpc[a] = "held"
    /\ lpc' = [a \in Acq |-> IF ProcOf(a) = p THEN "dead" ELSE lpc[a]]
    /\ hb' = [a \in Acq |-> IF ProcOf(a) = p /\ hb[a] # None THEN "exited" ELSE hb[a]]
    /\ handle' = [a \in Acq |-> IF ProcOf(a) = p THEN FALSE ELSE handle[a]]
    /\ UNCHANGED <<lockfile, timer, flock, done, hbTimer, via, mutexOwner, poisoned>>
    /\ doneAge' = [a \in Acq |-> IF ProcOf(a) = p THEN 0 ELSE doneAge[a]]
    /\ UNCHANGED <<removeRes, unwinding>>

Advance ==
    /\ lockfile' = IF lockfile.exists
                   THEN [lockfile EXCEPT !.age = Min(AgeCap, @ + Quantum)]
                   ELSE lockfile
    /\ timer' = [a \in Acq |-> Max(0, timer[a] - Quantum)]
    /\ hbTimer' = [a \in Acq |-> Max(0, hbTimer[a] - Quantum)]
    /\ UNCHANGED <<lpc, flock, done, hb, handle, via, mutexOwner, poisoned>>
    /\ UNCHANGED <<removeRes, unwinding>>

\* the time measured since done.store(true) of a poll() thread still running
Stopwatch ==
    doneAge' = [a \in Acq |-> IF done[a] /\ hb[a] \in {"sleep", "set_len"}
                              THEN Min(DoneAgeCap, doneAge[a] + Quantum)
                              ELSE doneAge[a]]

\* a thread that can take a step without waiting for the clock
Runnable(a) ==
    \/ lpc[a] \in {"open", "meta", "steal", "spawn", "dropStore", "dropRemove", "dropGuard"}
    \/ lpc[a] = "guard" /\ MutexAvailable(ProcOf(a))
    \/ lpc[a] = "sleep" /\ timer[a] = 0
    \/ hb[a] = "sleep" /\ hbTimer[a] = 0
    \/ hb[a] = "set_len"

\* the clock with arbitrary scheduling delays (nothing is measured)
Tick == Advance /\ UNCHANGED doneAge

\* the clock when every thread runs on schedule (steps take no time)
TickOnSchedule ==
    /\ \A a \in Acq : ~Runnable(a)
    /\ Advance
    /\ Stopwatch

(***************************************************************************)
(* Text: byte strings and Rust strings as sequences of symbols.  "BAD" is   *)
(* a byte that is not valid UTF-8, "FFFD" the replacement character.       *)
(***************************************************************************)
MaxLen == 2

InputBytes == {"a", "CR", "LF", "BAD"}

RECURSIVE SeqsUpTo(_, _)
SeqsUpTo(S, n) ==
    IF n = 0 THEN {<<>>}
    ELSE LET shorter == SeqsUpTo(S, n - 1)
         IN shorter \cup {Append(t, x) : t \in {u \in shorter : Len(u) = n - 1}, x \in S}

ByteTexts == SeqsUpTo(InputBytes, MaxLen)

\* String::from_utf8_lossy
FromUtf8Lossy(b) == [i \in 1..Len(b) |-> IF b[i] = "BAD" THEN "FFFD" ELSE b[i]]

\* fs::read_to_string succeeds only on valid UTF-8
IsUtf8(b) == \A i \in 1..Len(b) : b[i] # "BAD"

\* str::replace("\r\n", "\n")
RECURSIVE ReplaceCRLF(_)
ReplaceCRLF(s) ==
    IF Len(s) = 0 THEN <<>>
    ELSE IF Len(s) >= 2 /\ s[1] = "CR" /\ s[2] = "LF"
    THEN <<"LF">> \o ReplaceCRLF(SubSeq(s, 3, Len(s)))
    ELSE <<s[1]>> \o ReplaceCRLF(Tail(s))

(***************************************************************************)
(* Files of a run: the fixtures' snapshot files and the wip directory       *)
(***************************************************************************)
Paths == {"x/a.rs", "x/b.rs"}

\* self.path.with_extension("stderr").file_name(), joined to "wip"
WipName(path) == IF path = "x/a.rs" THEN "wip/a.stderr" ELSE "wip/b.stderr"
WipNames == {WipName(p) : p \in Paths}

Absent == [exists |-> FALSE, data |-> <<>>]
File(data) == [exists |-> TRUE, data |-> data]

EmptyFs ==
    [snap |-> [p \in Paths |-> Absent],
     wipdir |-> FALSE,
     gitignore |-> Absent,
     wip |-> [n \in WipNames |-> Absent]]

\* which filesystem call of a check fails, if it is made
Faults == {"none", "create_dir", "write_gitignore", "write_wip", "write_snap", "read_snap"}

(***************************************************************************)
(* Test::check, check_pass, check_compile_fail: lib.rs:158-265             *)
(* A result is [out, fs, exec, wrote, stat, read]: the Outcome or Error,   *)
(* the files afterwards, whether the artifact was executed, whether a      *)
(* snapshot (canonical or wip) was written, whether the snapshot path was  *)
(* probed with exists(), whether the snapshot file was read.               *)
(***************************************************************************)
Res(out, f, exec, wrote) ==
    [out |-> out, fs |-> f, exec |-> exec, wrote |-> wrote, stat |-> FALSE, read |-> FALSE]

\* lib.rs:216  stderr_path.exists()
Probed(r) == [r EXCEPT !.stat = TRUE]

\* lib.rs:240-241  fs::read_to_string(&stderr_path)
ReadSnapshot(r) == [r EXCEPT !.read = TRUE]

\* zxc::run_test and the artifact's exit status
ExecResults == {"exit0", "nonzero", "spawn_err"}

check_passNeverBuilt(success, exec, f) == Res("CargoFail", f, FALSE, FALSE)
check_pass(success, exec, f) ==
    IF ~success THEN Res("CargoFail", f, FALSE, FALSE)
    ELSE IF exec = "spawn_err" THEN Res("Cargo", f, FALSE, FALSE)
    ELSE IF exec = "exit0" THEN Res("Passed", f, TRUE, FALSE)
    ELSE Res("RunFailed", f, TRUE, FALSE)

\* the comparison of lib.rs:248
SameText(variations, expected) == variations = expected

\* what is written as the new snapshot: lib.rs:227, 232, 260
SnapshotTextEmpty(variations) == <<>>
SnapshotText(variations) == variations

\* Update::Wip, snapshot missing: lib.rs:218-229
write_wip(path, variations, f, fault) ==
    IF fault = "create_dir" THEN Res("Io", f, FALSE, FALSE)
    ELSE LET f1 == [f EXCEPT !.wipdir = TRUE] IN
         IF fault = "write_gitignore" THEN Res("Io", f1, FALSE, FALSE)
         ELSE LET f2 == [f1 EXCEPT !.gitignore = File(<<"*", "LF">>)] IN
              IF fault = "write_wip" THEN Res("WriteStderr", f2, FALSE, FALSE)
              ELSE Res("CreatedWip",
                       [f2 EXCEPT !.wip[WipName(path)] = File(SnapshotText(variations))],
                       FALSE, TRUE)

\* Update::Overwrite: lib.rs:230-234 and 258-262
overwrite_stderr(path, variations, f, fault) ==
    IF fault = "write_snap" THEN Res("WriteStderr", f, FALSE, FALSE)
    ELSE Res("Passed", [f EXCEPT !.snap[path] = File(SnapshotText(variations))],
             FALSE, TRUE)

\* Update::Wip, snapshot differs: lib.rs:254-257
mismatchWrites(path, variations, f) ==
    Res("Mismatch", [f EXCEPT !.snap[path] = File(variations)], FALSE, TRUE)
mismatch(path, variations, f) == Res("Mismatch", f, FALSE, FALSE)

\* lib.rs:214-263: the build failed; compare its stderr with the snapshot
compare_snapshot(path, update, variations, f, fault) ==
    Probed(
        IF ~f.snap[path].exists
        THEN IF update = "Wip"
             THEN write_wip(path, variations, f, fault)
             ELSE overwrite_stderr(path, variations, f, fault)
        ELSE ReadSnapshot(
            IF fault = "read_snap" \/ ~IsUtf8(f.snap[path].data)
            THEN Res("ReadStderr", f, FALSE, FALSE)
            ELSE LET expected == ReplaceCRLF(f.snap[path].data) IN
                 IF SameText(variations, expected) THEN Res("Passed", f, FALSE, FALSE)
                 ELSE IF update = "Wip"
                 THEN mismatch(path, variations, f)
                 ELSE overwrite_stderr(path, variations, f, fault)))

\* lib.rs:199-264
check_compile_failIgnoresSuccess(path, update, success, variations, f, fault) ==
    compare_snapshot(path, update, variations, f, fault)
check_compile_fail(path, update, success, variations, f, fault) ==
    IF success THEN Res("ShouldNotHaveCompiled", f, FALSE, FALSE)
    ELSE compare_snapshot(path, update, variations, f, fault)

\* Test::check: dispatch on the expectation; variations is the lossy decoding
\* of the captured stderr bytes
Test_check(path, expected, update, in, f) ==
    IF expected = "Pass"
    THEN check_pass(in.success, in.exec, f)
    ELSE check_compile_fail(path, update, in.success, FromUtf8Lossy(in.stderr), f, in.fault)

\* the results of a build that a check can be given, without the inputs the
\* expectation never reads
BuildResults(expected, stderrs) ==
    IF expected = "Pass"
    THEN {[success |-> FALSE, stderr |-> <<>>, exec |-> "exit0", fault |-> "none"]}
         \cup {[success |-> TRUE, stderr |-> <<>>, exec |-> e, fault |-> "none"] :
                 e \in ExecResults}
    ELSE {[success |-> TRUE, stderr |-> <<>>, exec |-> "exit0", fault |-> "none"]}
         \cup {[success |-> FALSE, stderr |-> t, exec |-> "exit0", fault |-> x] :
                 t \in stderrs, x \in Faults}

\* what the environment answers while run_all handles one test: does the file
\* exist, can cargo be started (zxc), can the driver be started, the build
NoBuild == [success |-> FALSE, stderr |-> <<>>, exec |-> "exit0", fault |-> "none"]

Answers(expected, stderrs) ==
    {[exists |-> FALSE, zxc |-> "ok", spawn |-> "ok", build |-> NoBuild],
     [exists |-> TRUE, zxc |-> "panic", spawn |-> "ok", build |-> NoBuild],
     [exists |-> TRUE, zxc |-> "ok", spawn |-> "err", build |-> NoBuild]}
    \cup {[exists |-> TRUE, zxc |-> "ok", spawn |-> "ok", build |-> b] :
            b \in BuildResults(expected, stderrs)}

Errors == {"Cargo", "CargoFail", "Glob", "Io", "Mismatch", "Open", "Pattern",
           "ReadStderr", "RunFailed", "ShouldNotHaveCompiled", "WriteStderr"}

(***************************************************************************)
(* Update::env, env.rs:13-26                                               *)
(***************************************************************************)
EnvValues == {"unset", "wip", "overwrite", "bogus", "nonutf8"}

UpdateEnvLenient(var) == IF var = "overwrite" THEN "Overwrite" ELSE "Wip"
UpdateEnv(var) ==
    IF var = "unset" THEN "Wip"
    ELSE IF var = "wip" THEN "Wip"
    ELSE IF var = "overwrite" THEN "Overwrite"
    ELSE "UpdateVar"

(***************************************************************************)
(* Runner::run, lib.rs:334-443.  The thread Runner of process P runs it.   *)
(***************************************************************************)
\* The second run of drop is given an acquirer of its own.
Runner == IF codegen = "llvm" THEN "t2" ELSE "t1"
MaxTests == 2

\* an ExpandedTest: its path, expectation and the error captured at expansion
TestKinds ==
    {[path |-> p, expected |-> e, error |-> None] : p \in Paths, e \in {"Pass", "CompileFail"}}
    \cup {[path |-> "x/a.rs", expected |-> "CompileFail", error |-> "Pattern"]}

TestLists == SeqsUpTo(TestKinds, MaxTests)

\* the stderr of a driver invocation during a run
RunStderr == {<<"a">>, <<"LF">>, <<"CR", "LF">>, <<"BAD">>}

NoReport == [failures |-> 0, created_wip |-> 0]

\* Runner::prepare, lib.rs:335-352
\* its error, if any: current_dir()? comes first, then Update::env()?
prepareError ==
    IF ~cwdOk THEN "Io"
    ELSE IF UpdateEnv(envVar) = "UpdateVar" THEN "UpdateVar"
    ELSE None

\* the Project it returns otherwise
prepare == [has_pass |-> FALSE, update |-> UpdateEnv(envVar), keep_going |-> TRUE]

NoProject == [has_pass |-> FALSE, update |-> None, keep_going |-> FALSE]

\* lib.rs:417  project.keep_going && !project.has_pass
UseRunAll(pr) == pr.keep_going /\ ~pr.has_pass

\* lib.rs:437-442: the two panics after the batch
VerdictIgnoresWip(r) == IF r.failures > 0 THEN "panic_failures" ELSE "ok"
Verdict(r) ==
    IF r.failures > 0 THEN "panic_failures"
    ELSE IF r.created_wip > 0 THEN "panic_wip"
    ELSE "ok"

\* lib.rs:381-384 and 387-390: fold one test's result into the Report
FoldCountsWipAsFailure(r, out) ==
    IF out = "Passed" THEN r ELSE [r EXCEPT !.failures = @ + 1]
Fold(r, out) ==
    IF out = "Passed" THEN r
    ELSE IF out = "CreatedWip" THEN [r EXCEPT !.created_wip = @ + 1]
    ELSE [r EXCEPT !.failures = @ + 1]

\* lib.rs:400-404: the Lock is bound to _lock, so it lives to the end of run
BindLockDiscard(a) == StartDrop(a, FALSE)
BindLock(a) == UNCHANGED lockVars

\* lib.rs:396-408: expand, filter, prepare, then call Lock::acquire
Run_prepare ==
    /\ rpc = "start"
    /\ IF prepareError # None
       THEN /\ verdict' = "panic_prepare"
            /\ rpc' = "done"
            /\ UNCHANGED <<project, acquires, lockVars>>
       ELSE /\ project' = prepare
            /\ acquires' = acquires + 1
            /\ rpc' = "acquire"
            /\ Begin(Runner)
            /\ UNCHANGED verdict
    /\ UNCHANGED <<tests, envVar, cwdOk, idx, raReport, report, outcomes, work, missing, fs, script>>

\* lib.rs:405-408: Lock::acquire returned an error
Run_acquire_failed ==
    /\ rpc = "acquire"
    /\ lpc[Runner] = "failed"
    /\ verdict' = "panic_prepare"
    /\ rpc' = "done"
    /\ UNCHANGED <<tests, envVar, cwdOk, project, idx, raReport, report, outcomes, work, missing,
                   acquires, fs, script, lockVars>>

\* lib.rs:400-421: Lock::acquire returned the Lock; enter the batch
Run_acquired ==
    /\ rpc = "acquire"
    /\ lpc[Runner] = "held"
    /\ BindLock(Runner)
    /\ report' = NoReport
    /\ IF Len(tests) = 0
       THEN /\ rpc' = "verdict"
            /\ UNCHANGED <<idx, raReport>>
       ELSE /\ UseRunAll(project)
            /\ rpc' = "run_all"
            /\ idx' = 1
            /\ raReport' = NoReport
    /\ UNCHANGED <<tests, envVar, cwdOk, project, verdict, outcomes, work, missing, acquires, fs,
                   script>>

Did(kind) == [kind |-> kind, test |-> idx, locked |-> lpc[Runner] = "held"]

\* run_all, lib.rs:368-391: one iteration of the for loop
RunAll_recorded(out, f, did) ==
    /\ raReport' = Fold(raReport, out)
    /\ outcomes' = Append(outcomes, out)
    /\ work' = work \cup did
    /\ fs' = f
    /\ idx' = idx + 1
    /\ UNCHANGED <<rpc, report, verdict, lockVars>>

\* lib.rs:372-374: the error the test carries, else that of check_exists
PreErrorSkipsExists(t, exists) == t.error
PreError(t, exists) ==
    IF t.error # None THEN t.error
    ELSE IF ~exists THEN "Open"
    ELSE None

RunAll_test ==
    /\ rpc = "run_all"
    /\ idx <= Len(tests)
    /\ LET t == tests[idx] IN
       \/ /\ t.error # None
          /\ RunAll_recorded(PreError(t, TRUE), fs, {})
          /\ UNCHANGED missing
       \/ /\ t.error = None
          /\ \E in \in (IF script.scripted THEN {script.answer}
                        ELSE Answers(t.expected, RunStderr)) :
               /\ missing' = IF in.exists THEN missing ELSE missing \cup {idx}
               /\ IF PreError(t, in.exists) # None
                  THEN \* check_exists failed
                       RunAll_recorded(PreError(t, in.exists), fs, {})
                  ELSE IF in.zxc = "panic"
                  THEN \* zxc(): cargo could not be started, output().unwrap() panics
                       /\ verdict' = "panic_zxc"
                       /\ rpc' = "drop"
                       /\ StartDrop(Runner, TRUE)
                       /\ UNCHANGED <<idx, raReport, report, outcomes, work, fs>>
                  ELSE IF in.spawn = "err"
                  THEN \* build_test(..)? returns Err(Error::Cargo) from run_all
                       /\ report' = [failures |-> Len(tests), created_wip |-> 0]
                       /\ outcomes' = Append(outcomes, "Cargo")
                       /\ rpc' = "verdict"
                       /\ UNCHANGED <<idx, raReport, verdict, work, fs, lockVars>>
                  ELSE LET r == Test_check(t.path, t.expected, project.update, in.build, fs)
                       IN RunAll_recorded(r.out, r.fs,
                              {Did("driver")}
                              \cup (IF r.exec THEN {Did("exec")} ELSE {})
                              \cup (IF r.wrote THEN {Did("write")} ELSE {})
                              \cup (IF r.stat THEN {Did("stat")} ELSE {})
                              \cup (IF r.read THEN {Did("read")} ELSE {}))
    /\ UNCHANGED <<tests, envVar, cwdOk, project, acquires, script>>

\* run_all, lib.rs:393: Ok(report)
RunAll_return ==
    /\ rpc = "run_all"
    /\ idx > Len(tests)
    /\ report' = raReport
    /\ rpc' = "verdict"
    /\ UNCHANGED <<tests, envVar, cwdOk, project, idx, raReport, verdict, outcomes, work, missing,
                   acquires, fs, script, lockVars>>

\* lib.rs:437-443: panic or return; either way _lock goes out of scope
Run_verdict ==
    /\ rpc = "verdict"
    /\ verdict' = Verdict(report)
    /\ rpc' = "drop"
    /\ StartDrop(Runner, Verdict(report) # "ok")
    /\ UNCHANGED <<tests, envVar, cwdOk, project, idx, raReport, report, outcomes, work, missing,
                   acquires, fs, script>>

\* the drop of _lock is over: run has returned or the panic leaves run
Run_done ==
    /\ rpc = "drop"
    /\ lpc[Runner] = "released"
    /\ rpc' = "done"
    /\ UNCHANGED <<tests, envVar, cwdOk, project, idx, raReport, report, verdict, outcomes,
                   work, missing, acquires, fs, script, lockVars>>

\* the clock while the Runner sleeps in create()
TickRunnerAsleep ==
    /\ lpc[Runner] = "sleep"
    /\ timer[Runner] > 0
    /\ Tick

(***************************************************************************)
(* Diff::compute, diff.rs:22-46.  The two strings are given by the chunks  *)
(* dissimilar::diff cuts them into: Equal chunks are in both, Delete       *)
(* chunks in expected only, Insert chunks in actual only.                  *)
(***************************************************************************)
MaxChunks == 3
DiffCeiling == 2048

ChunkLens == {1, 4, 5, 1023, 1024, 2048}
Chunks == [kind : {"Equal", "Delete", "Insert"}, len : ChunkLens]

\* the calls: the chunks of the two strings, and whether dissimilar::diff
\* panics on them
DiffCalls == [chunks : SeqsUpTo(Chunks, MaxChunks), panics : BOOLEAN]

\* the summed length of the chunks of the given kinds
RECURSIVE SumLen(_, _)
SumLen(chunks, kinds) ==
    IF chunks = <<>> THEN 0
    ELSE (IF Head(chunks).kind \in kinds THEN Head(chunks).len ELSE 0)
         + SumLen(Tail(chunks), kinds)

\* expected.len(), actual.len()
ExpectedLen(chunks) == SumLen(chunks, {"Equal", "Delete"})
ActualLen(chunks) == SumLen(chunks, {"Equal", "Insert"})

\* diff.rs:23  the negation of expected.len() + actual.len() > 2048
WithinCeilingExclusive(e, a) == e + a < DiffCeiling
WithinCeiling(e, a) == e + a <= DiffCeiling

\* diff.rs:32-37  the loop adding up the Equal chunks
RECURSIVE common_len(_)
common_len(chunks) ==
    IF chunks = <<>> THEN 0
    ELSE IF Head(chunks).kind = "Equal"
    THEN Head(chunks).len + common_len(Tail(chunks))
    ELSE common_len(Tail(chunks))

\* diff.rs:39-40
worth_printing(common, e, a) == 5 * common >= 4 * Max(e, a)

\* Diff::compute, diff.rs:22-46
Diff_compute(call) ==
    LET e == ExpectedLen(call.chunks)
        a == ActualLen(call.chunks)
    IN IF ~WithinCeiling(e, a) THEN "None"
       ELSE IF call.panics THEN "None"
       ELSE IF ~worth_printing(common_len(call.chunks), e, a) THEN "None"
       ELSE "Some"

compute ==
    /\ diffOut = None
    /\ diffOut' = Diff_compute(diffIn)
    /\ UNCHANGED diffIn

\* no call of Diff::compute is being followed
InitDiffIdle ==
    /\ diffIn = [chunks |-> <<>>, panics |-> TRUE]
    /\ diffOut = None

\* where one run alone is followed: run("cranelift"), lib.rs:298
InitDropIdle ==
    /\ dpc = "idle"
    /\ codegen = "cranelift"
    /\ threadPanicking = FALSE
    /\ runs = <<>>

(***************************************************************************)
(* ExpandedTestSet and Runner::expand_globs, lib.rs:57-134                 *)
(***************************************************************************)
MaxIntents == 3

\* the files a glob can find, and the paths an intent can name: a file, a
\* pattern matching every file, a pattern matching one, a malformed pattern
GlobFiles == Paths
Patterns == {"x/*.rs", "x/a*.rs", "x/[*.rs"}
IntentPaths == GlobFiles \cup Patterns

Intents ==
    SeqsUpTo({[path |-> p, expected |-> e] :
                 p \in IntentPaths, e \in {"Pass", "CompileFail"}}, MaxIntents)

\* lib.rs:89  utf8.contains('*')
HasWildcard(path) == path \in Patterns

\* glob::glob(pattern): Err(PatternError) for a malformed pattern
PatternOk(pattern) == pattern # "x/[*.rs"

\* the files a well-formed pattern matches
Matches(pattern, present) ==
    IF pattern = "x/*.rs" THEN present
    ELSE IF pattern = "x/a*.rs" THEN present \cap {"x/a.rs"}
    ELSE {}

\* the orders in which the directory walk can yield a set of paths
RECURSIVE Perms(_)
Perms(S) ==
    IF S = {} THEN {<<>>}
    ELSE UNION {{<<x>> \o q : q \in Perms(S \ {x})} : x \in S}

\* Ord for PathBuf on the paths of the model
PathRank(path) == IF path = "x/a.rs" THEN 1 ELSE 2
PathLess(p, q) == PathRank(p) < PathRank(q)

\* lib.rs:132  paths.sort()
RECURSIVE SortInsert(_, _)
SortInsert(sorted, x) ==
    IF sorted = <<>> THEN <<x>>
    ELSE IF PathLess(x, Head(sorted)) THEN <<x>> \o sorted
    ELSE <<Head(sorted)>> \o SortInsert(Tail(sorted), x)

SortSkipped(paths) == paths
RECURSIVE Sort(_)
Sort(paths) ==
    IF paths = <<>> THEN <<>> ELSE SortInsert(Sort(Tail(paths)), Head(paths))

\* lib.rs:128-134  glob(): what it returns for a directory walk yielding raw
glob(pattern, readable, raw) ==
    IF ~PatternOk(pattern) THEN [ok |-> FALSE, error |-> "Pattern", paths |-> <<>>]
    ELSE IF ~readable THEN [ok |-> FALSE, error |-> "Glob", paths |-> <<>>]
    ELSE [ok |-> TRUE, error |-> None, paths |-> Sort(raw)]

\* format!("{:03}", index): decimal digits, zero-padded to width 3
RECURSIVE Digits(_)
Digits(n) == IF n < 10 THEN <<n>> ELSE Digits(n \div 10) \o <<n % 10>>

RECURSIVE ZeroPad3(_)
ZeroPad3(d) == IF Len(d) >= 3 THEN d ELSE ZeroPad3(<<0>> \o d)

\* lib.rs:77  format!("trybuild{:03}", index)
OrdinalName(index) == <<"trybuild">> \o ZeroPad3(Digits(index))

\* ExpandedTestSet::new, lib.rs:63-65
ExpandedTestSet_new == [vec |-> <<>>, path_to_index |-> <<>>]

\* lib.rs:68  self.path_to_index.get(&test.path)
HasIndex(s, path) == path \in DOMAIN s.path_to_index

\* lib.rs:78  self.path_to_index.insert(path, index)
MapInsertIfAbsent(m, path, index) ==
    IF path \in DOMAIN m THEN m
    ELSE [q \in DOMAIN m \cup {path} |-> IF q = path THEN index ELSE m[q]]
MapInsert(m, path, index) ==
    [q \in DOMAIN m \cup {path} |-> IF q = path THEN index ELSE m[q]]

\* lib.rs:76  let index = self.vec.len()   (positions of vec count from 0)
NextIndexAfterPush(v) == Len(v) + 1
NextIndex(v) == Len(v)

\* lib.rs:76-79: name the entry after its index and push it
Push(s, test, error, is_from_glob) ==
    LET index == NextIndex(s.vec) IN
    [vec |-> Append(s.vec, [name |-> OrdinalName(index),
                            path |-> test.path,
                            expected |-> test.expected,
                            error |-> error,
                            is_from_glob |-> is_from_glob]),
     path_to_index |-> MapInsert(s.path_to_index, test.path, index)]

\* ExpandedTestSet::insert, lib.rs:67-80
insertAlwaysPushes(s, test, error, is_from_glob) == Push(s, test, error, is_from_glob)
insert(s, test, error, is_from_glob) ==
    IF HasIndex(s, test.path) /\ s.vec[s.path_to_index[test.path] + 1].is_from_glob
    THEN [s EXCEPT !.vec[s.path_to_index[test.path] + 1].expected = test.expected]
    ELSE Push(s, test, error, is_from_glob)

\* expand_globs, lib.rs:87-100: one intent of the for loop; the loop over a
\* glob's paths (lib.rs:92-94) is left to expand_globs_insert
expand_globs_intent ==
    /\ epc = "intent"
    /\ ip <= Len(intents)
    /\ LET test == intents[ip] IN
       IF ~HasWildcard(test.path)
       THEN /\ set' = insert(set, test, None, FALSE)
            /\ setB' = insert(setB, test, None, FALSE)
            /\ ip' = ip + 1
            /\ UNCHANGED <<epc, walk, walkB, pending, pendingB>>
       ELSE \E raw, rawB \in Perms(Matches(test.path, files.present)) :
              LET g == glob(test.path, files.readable, raw)
                  gB == glob(test.path, files.readable, rawB)
              IN IF ~g.ok
                 THEN /\ set' = insert(set, test, g.error, FALSE)
                      /\ setB' = insert(setB, test, gB.error, FALSE)
                      /\ ip' = ip + 1
                      /\ UNCHANGED <<epc, walk, walkB, pending, pendingB>>
                 ELSE /\ walk' = raw
                      /\ walkB' = rawB
                      /\ IF g.paths = <<>>
                         THEN /\ ip' = ip + 1
                              /\ UNCHANGED <<epc, pending, pendingB, set, setB>>
                         ELSE /\ pending' = g.paths
                              /\ pendingB' = gB.paths
                              /\ epc' = "insert"
                              /\ UNCHANGED <<ip, set, setB>>
    /\ UNCHANGED <<intents, files>>

\* lib.rs:92-94: one path of the glob's loop
expand_globs_insert ==
    /\ epc = "insert"
    /\ pending # <<>>
    /\ LET expected == intents[ip].expected IN
       /\ set' = insert(set, [path |-> Head(pending), expected |-> expected], None, TRUE)
       /\ setB' = insert(setB, [path |-> Head(pendingB), expected |-> expected], None, TRUE)
    /\ pending' = Tail(pending)
    /\ pendingB' = Tail(pendingB)
    /\ IF Tail(pending) = <<>>
       THEN ip' = ip + 1 /\ epc' = "intent"
       ELSE UNCHANGED <<ip, epc>>
    /\ UNCHANGED <<intents, files, walk, walkB>>

\* lib.rs:102  set.vec
expand_globs_return ==
    /\ epc = "intent"
    /\ ip > Len(intents)
    /\ epc' = "done"
    /\ UNCHANGED <<intents, files, ip, walk, walkB, pending, pendingB, set, setB>>

\* no expansion is being followed
InitExpandIdle ==
    /\ intents = <<>>
    /\ files = [present |-> {}, readable |-> TRUE]
    /\ ip = 1
    /\ epc = "done"
    /\ walk = <<>>
    /\ walkB = <<>>
    /\ pending = <<>>
    /\ pendingB = <<>>
    /\ set = ExpandedTestSet_new
    /\ setB = ExpandedTestSet_new
    /\ InitDiffIdle

InitLockFiles ==
    {NoFile, FreshFile,
     [exists |-> TRUE, age |-> StaleWindow + Quantum],
     [exists |-> TRUE, age |-> AgeFloor]}

InitLockVars ==
    /\ lpc = [a \in Acq |-> "idle"]
    /\ timer = [a \in Acq |-> 0]
    /\ flock = [a \in Acq |-> "NotLocked"]
    /\ done = [a \in Acq |-> FALSE]
    /\ hb = [a \in Acq |-> None]
    /\ hbTimer = [a \in Acq |-> 0]
    /\ handle = [a \in Acq |-> FALSE]
    /\ via = [a \in Acq |-> None]
    /\ mutexOwner = [p \in Procs |-> None]
    /\ poisoned = [p \in Procs |-> FALSE]
    /\ removeRes = [a \in Acq |-> None]
    /\ unwinding = [a \in Acq |-> FALSE]
    /\ doneAge = [a \in Acq |-> 0]

InitRunVars ==
    /\ rpc = "start"
    /\ project = NoProject
    /\ idx = 0
    /\ raReport = NoReport
    /\ report = NoReport
    /\ verdict = None
    /\ outcomes = <<>>
    /\ work = {}
    /\ missing = {}
    /\ acquires = 0

Unscripted ==
    [scripted |-> FALSE,
     answer |-> [exists |-> TRUE, zxc |-> "ok", spawn |-> "ok", build |-> NoBuild],
     snap0 |-> Absent]

(***************************************************************************)
(* SpecLock: the threads of Acq acquire and release the Lock of one        *)
(* directory; SpecLockTimed: the same when every thread runs on schedule.  *)
(***************************************************************************)
InitLock ==
    /\ lockfile \in InitLockFiles
    /\ InitLockVars
    /\ InitRunVars
    /\ tests = <<>> /\ envVar = "unset" /\ cwdOk = TRUE
    /\ fs = EmptyFs
    /\ script = Unscripted
    /\ InitExpandIdle
    /\ InitDropIdle

LockStep(a) ==
    \/ Begin(a)
    \/ Guard_acquire(a)
    \/ create_open(a)
    \/ create_metadata(a)
    \/ create_steal(a)
    \/ create_wake(a)
    \/ FileLock_spawn(a)
    \/ poll_load(a)
    \/ poll_set_len(a)
    \/ End(a)
    \/ FileLock_drop_store(a)
    \/ FileLock_drop_remove(a)
    \/ Lock_drop_guard(a)

NextLock ==
    /\ \/ \E a \in Acq : LockStep(a)
       \/ \E p \in Procs : Crash(p)
       \/ Tick
    /\ UNCHANGED <<runVars, fs, script, expVars, diffVars, dropVars>>

NextLockTimed ==
    /\ \/ \E a \in Acq : LockStep(a)
       \/ \E p \in Procs : Crash(p)
       \/ TickOnSchedule
    /\ UNCHANGED <<runVars, fs, script, expVars, diffVars, dropVars>>

SpecLock == InitLock /\ [][NextLock]_vars

\* SpecLockProc: the threads of the test binary P alone, with arbitrary
\* scheduling delays, next to a lock file that is absent, fresh or stale
NextLockProc ==
    /\ \/ \E a \in {b \in Acq : ProcOf(b) = "P"} : LockStep(a)
       \/ Crash("P")
       \/ Tick
    /\ UNCHANGED <<runVars, fs, script, expVars, diffVars, dropVars>>

SpecLockProc == InitLock /\ [][NextLockProc]_vars
SpecLockTimed == InitLock /\ [][NextLockTimed]_vars

(***************************************************************************)
(* SpecRun: one Runner::run over a batch, in a directory whose lock file   *)
(* is absent or was left behind by a process that is gone.                 *)
(***************************************************************************)
InitSnapshots == {Absent, File(<<"LF">>), File(<<"CR", "LF">>), File(<<"BAD">>)}

InitRun ==
    /\ lockfile \in {NoFile, FreshFile, [exists |-> TRUE, age |-> StaleWindow + Quantum]}
    /\ InitLockVars
    /\ InitRunVars
    /\ tests \in TestLists
    /\ envVar \in EnvValues
    /\ cwdOk \in BOOLEAN
    /\ cwdOk \/ envVar = "unset"
    /\ \E sa \in InitSnapshots : fs = [EmptyFs EXCEPT !.snap["x/a.rs"] = sa]
    /\ script = Unscripted
    /\ InitExpandIdle
    /\ InitDropIdle

RunnerLockStep ==
    \/ Guard_acquire(Runner)
    \/ create_open(Runner)
    \/ create_metadata(Runner)
    \/ create_steal(Runner)
    \/ create_wake(Runner)
    \/ FileLock_spawn(Runner)
    \/ FileLock_drop_store(Runner)
    \/ FileLock_drop_remove(Runner)
    \/ Lock_drop_guard(Runner)
    \/ TickRunnerAsleep

NextRun ==
    /\ \/ Run_prepare
       \/ Run_acquire_failed
       \/ Run_acquired
       \/ RunAll_test
       \/ RunAll_return
       \/ Run_verdict
       \/ Run_done
       \/ RunnerLockStep /\ UNCHANGED <<runVars, fs, script>>
    /\ UNCHANGED <<expVars, diffVars, dropVars>>

SpecRun == InitRun /\ [][NextRun]_vars

(***************************************************************************)
(* SpecFixture: a batch of one fixture, from the moment run holds the Lock *)
(* (taken by creating the lock file), for every answer of the environment  *)
(* with stderr and snapshot file up to MaxLen bytes.                       *)
(***************************************************************************)
FixturePath == "x/a.rs"

InitFixture ==
    /\ InitDropIdle
    /\ lockfile = FreshFile
    /\ lpc = [a \in Acq |-> IF a = Runner THEN "held" ELSE "idle"]
    /\ timer = [a \in Acq |-> 0]
    /\ flock = [a \in Acq |-> IF a = Runner THEN "Locked" ELSE "NotLocked"]
    /\ done = [a \in Acq |-> FALSE]
    /\ hb = [a \in Acq |-> IF a = Runner THEN "sleep" ELSE None]
    /\ hbTimer = [a \in Acq |-> IF a = Runner THEN PollInterval ELSE 0]
    /\ handle = [a \in Acq |-> a = Runner]
    /\ via = [a \in Acq |-> IF a = Runner THEN "new" ELSE None]
    /\ mutexOwner = [p \in Procs |-> IF p = ProcOf(Runner) THEN Runner ELSE None]
    /\ poisoned = [p \in Procs |-> FALSE]
    /\ removeRes = [a \in Acq |-> None]
    /\ unwinding = [a \in Acq |-> FALSE]
    /\ doneAge = [a \in Acq |-> 0]
    /\ rpc = "run_all"
    /\ idx = 1
    /\ raReport = NoReport
    /\ report = NoReport
    /\ verdict = None
    /\ outcomes = <<>>
    /\ work = {}
    /\ missing = {}
    /\ acquires = 1
    /\ cwdOk = TRUE
    /\ envVar \in {"unset", "wip", "overwrite"}
    /\ project = prepare
    /\ \E e \in {"Pass", "CompileFail"} :
         /\ tests = <<[path |-> FixturePath, expected |-> e, error |-> None]>>
         /\ \E sa \in {Absent} \cup {File(t) : t \in ByteTexts},
               in \in Answers(e, ByteTexts) :
              /\ script = [scripted |-> TRUE, answer |-> in, snap0 |-> sa]
              /\ fs = [EmptyFs EXCEPT !.snap[FixturePath] = sa]
    /\ InitExpandIdle

NextFixture ==
    /\ \/ RunAll_test
       \/ RunAll_return
       \/ Run_verdict
       \/ Run_done
       \/ /\ \/ FileLock_drop_store(Runner)
             \/ FileLock_drop_remove(Runner)
             \/ Lock_drop_guard(Runner)
          /\ UNCHANGED <<runVars, fs, script>>
    /\ UNCHANGED <<expVars, diffVars, dropVars>>

SpecFixture == InitFixture /\ [][NextFixture]_vars

(***************************************************************************)
(* impl Drop for TestCases, lib.rs:294-303.  SpecDrop follows the drop of  *)
(* a TestCases over a batch: run("cranelift"), then run("llvm"), each a    *)
(* Runner::run of its own.                                                 *)
(***************************************************************************)
\* what drop notes of a run that is over
RunRecord ==
    [codegen |-> codegen,
     lock |-> Runner,
     verdict |-> verdict,
     report |-> report,
     acquires |-> acquires,
     lpc |-> lpc[Runner],
     guard |-> mutexOwner[ProcOf(Runner)]]

\* lib.rs:298-300: a panic of run leaves drop, a return goes on to the next
\* statement
ContinueAfterAlways(v) == TRUE
ContinueAfter(v) == v = "ok"

\* lib.rs:296-298: if !thread::panicking() { report_codegen; run("cranelift")
Drop_begin ==
    /\ dpc = "start"
    /\ IF threadPanicking
       THEN /\ dpc' = "done"
            /\ UNCHANGED <<codegen, rpc>>
       ELSE /\ dpc' = "first"
            /\ codegen' = "cranelift"
            /\ rpc' = "start"
    /\ UNCHANGED <<threadPanicking, runs, lockVars, fs, script>>
    /\ UNCHANGED <<tests, envVar, cwdOk, project, idx, raReport, report, verdict, outcomes,
                   work, missing, acquires>>

\* lib.rs:298-300: run("cranelift") is over; report_codegen; run("llvm")
Drop_next ==
    /\ dpc = "first"
    /\ rpc = "done"
    /\ runs' = Append(runs, RunRecord)
    /\ IF ContinueAfter(verdict)
       THEN /\ dpc' = "second"
            /\ codegen' = "llvm"
            /\ rpc' = "start"
            /\ project' = NoProject
            /\ idx' = 0
            /\ raReport' = NoReport
            /\ report' = NoReport
            /\ verdict' = None
            /\ outcomes' = <<>>
            /\ work' = {}
            /\ missing' = {}
            /\ acquires' = 0
       ELSE /\ dpc' = "done"
            /\ UNCHANGED <<codegen, rpc, project, idx, raReport, report, verdict, outcomes,
                           work, missing, acquires>>
    /\ UNCHANGED <<threadPanicking, lockVars, fs, script, tests, envVar, cwdOk>>

\* lib.rs:300-302: run("llvm") is over, and so is drop
Drop_end ==
    /\ dpc = "second"
    /\ rpc = "done"
    /\ runs' = Append(runs, RunRecord)
    /\ dpc' = "done"
    /\ UNCHANGED <<codegen, threadPanicking, lockVars, runVars, fs, script>>

\* The directory has no lock file when drop begins (the second run meets
\* the one the first run left behind when its remove_file failed); the
\* update mode is the default one or an invalid one.
InitDrop ==
    /\ lockfile = NoFile
    /\ InitLockVars
    /\ rpc = "idle"
    /\ project = NoProject
    /\ idx = 0
    /\ raReport = NoReport
    /\ report = NoReport
    /\ verdict = None
    /\ outcomes = <<>>
    /\ work = {}
    /\ missing = {}
    /\ acquires = 0
    /\ tests \in TestLists
    /\ envVar \in {"unset", "bogus"}
    /\ cwdOk \in BOOLEAN
    /\ cwdOk \/ envVar = "unset"
    /\ \E sa \in {Absent, File(<<"LF">>)} : fs = [EmptyFs EXCEPT !.snap["x/a.rs"] = sa]
    /\ script = Unscripted
    /\ InitExpandIdle
    /\ dpc = "start"
    /\ codegen = "none"
    /\ threadPanicking \in BOOLEAN
    /\ runs = <<>>

NextDrop ==
    /\ \/ Drop_begin
       \/ Drop_next
       \/ Drop_end
       \/ /\ \/ Run_prepare
             \/ Run_acquire_failed
             \/ Run_acquired
             \/ RunAll_test
             \/ RunAll_return
             \/ Run_verdict
             \/ Run_done
             \/ RunnerLockStep /\ UNCHANGED <<runVars, fs, script>>
          /\ UNCHANGED dropVars
    /\ UNCHANGED <<expVars, diffVars>>

SpecDrop == InitDrop /\ [][NextDrop]_vars

(***************************************************************************)
(* SpecExpand: Runner::expand_globs over every list of up to MaxIntents    *)
(* intents and every content of the fixture directory.  The expansion is   *)
(* followed twice on the same input (set, setB), the directory walk of     *)
(* each glob yielding its paths in an order chosen independently.          *)
(***************************************************************************)
InitExpand ==
    /\ InitDropIdle
    /\ lockfile = NoFile
    /\ InitLockVars
    /\ InitRunVars
    /\ tests = <<>> /\ envVar = "unset" /\ cwdOk = TRUE
    /\ fs = EmptyFs
    /\ script = Unscripted
    /\ intents \in Intents
    /\ files \in [present : SUBSET GlobFiles, readable : BOOLEAN]
    /\ ip = 1
    /\ epc = "intent"
    /\ walk = <<>>
    /\ walkB = <<>>
    /\ pending = <<>>
    /\ pendingB = <<>>
    /\ set = ExpandedTestSet_new
    /\ setB = ExpandedTestSet_new
    /\ InitDiffIdle

NextExpand ==
    /\ \/ expand_globs_intent
       \/ expand_globs_insert
       \/ expand_globs_return
    /\ UNCHANGED <<lockVars, runVars, fs, script, diffVars, dropVars>>

SpecExpand == InitExpand /\ [][NextExpand]_vars

(***************************************************************************)
(* SpecDiff: one call of Diff::compute, for every pair of strings made of  *)
(* up to MaxChunks chunks.                                                 *)
(***************************************************************************)
InitDiff ==
    /\ InitDropIdle
    /\ lockfile = NoFile
    /\ InitLockVars
    /\ InitRunVars
    /\ tests = <<>> /\ envVar = "unset" /\ cwdOk = TRUE
    /\ fs = EmptyFs
    /\ script = Unscripted
    /\ intents = <<>>
    /\ files = [present |-> {}, readable |-> TRUE]
    /\ ip = 1
    /\ epc = "done"
    /\ walk = <<>>
    /\ walkB = <<>>
    /\ pending = <<>>
    /\ pendingB = <<>>
    /\ set = ExpandedTestSet_new
    /\ setB = ExpandedTestSet_new
    /\ diffIn \in DiffCalls
    /\ diffOut = None

NextDiff ==
    /\ compute
    /\ UNCHANGED <<lockVars, runVars, fs, script, expVars, dropVars>>

SpecDiff == InitDiff /\ [][NextDiff]_vars

(***************************************************************************)
(*                              Properties                                 *)
(***************************************************************************)

\* a live thread whose Lock has the file layer
Holds(a) == lpc[a] = "held" /\ flock[a] = "Locked"

\* C1: for any interleaving of acquirers of one lock file path, no two of
\* them hold the file layer (FileLock::Locked) at the same time.
C1_FileLayerMutualExclusion ==
    \A a, b \in Acq : a # b => ~(Holds(a) /\ Holds(b))

\* an acquirer waiting in the backoff sleep of create() to retry
Waiting(a) == lpc[a] = "sleep"
RetryCycle == 3 * Backoff

\* C2: when every thread runs on schedule, no acquirer is still waiting to
\* retry create() once the lock file has been stale (modified more than
\* 1500 ms ago) for one retry cycle (1500 ms): it has stolen the file.
C2_StaleLockTakenWithinRetryCycle ==
    \A a \in Acq :
        Waiting(a) /\ lockfile.exists => lockfile.age <= StaleWindow + RetryCycle

\* C2 witness: the holder's process died and another acquirer stole its lock
C2_Witness ==
    \E a, b \in Acq : lpc[b] = "dead" /\ via[b] = "new" /\ Holds(a) /\ via[a] = "stolen"

\* the file layer of a's Lock is released: flag set, lock file deleted
FileLayerReleased(a) ==
    /\ flock[a] = "NotLocked"
    /\ via[a] \in {"new", "stolen"} =>
         /\ done[a]
         /\ removeRes[a] # None
         /\ removeRes[a] = "ok" => ~lockfile.exists

\* C3: on every exit path of Runner::run after the Lock was acquired the
\* Lock is released, the file layer (done flag, lock file deleted) before
\* the in-process mutex guard.
C3_LockReleasedOnEveryExit ==
    verdict # "panic_prepare" =>
        /\ rpc = "done" =>
             /\ lpc[Runner] = "released"
             /\ mutexOwner[ProcOf(Runner)] = None
             /\ FileLayerReleased(Runner)
        /\ rpc \in {"drop", "done"} /\ mutexOwner[ProcOf(Runner)] # Runner =>
             FileLayerReleased(Runner)

\* C3 witness: run panicked because tests failed and its stolen lock is released
C3_Witness ==
    /\ rpc = "done"
    /\ verdict = "panic_failures"
    /\ via[Runner] = "stolen"
    /\ removeRes[Runner] = "ok"

\* C4: every driver invocation, artifact execution and snapshot write of a
\* run happens while the run holds the Lock, which it acquires once, before
\* the first test, and does not release before the batch is over.
C4_WorkUnderLock ==
    /\ \A w \in work : w.locked
    /\ acquires <= 1
    /\ rpc \in {"run_all", "verdict"} =>
         /\ lpc[Runner] = "held"
         /\ mutexOwner[ProcOf(Runner)] = Runner
         /\ acquires = 1
    /\ lpc[Runner] \in {"dropStore", "dropRemove", "dropGuard", "released"} =>
         rpc \in {"drop", "done"}

\* C4 witness: a finished run that invoked the driver for its first test and
\* wrote a snapshot for its second
C4_Witness ==
    /\ rpc = "done"
    /\ \E w1, w2 \in work :
         /\ w1.kind = "driver" /\ w1.test = 1
         /\ w2.kind = "write" /\ w2.test = 2

\* run reached the end of the batch and judged its Report
Judged == verdict \in {"ok", "panic_failures", "panic_wip"}

\* C5: run completes normally only with a Report of zero failures and zero
\* provisional snapshots, and a run that judged its Report completes
\* normally exactly then: failures panic, and so do provisional snapshots.
C5_SuccessIffCleanReport ==
    rpc \in {"drop", "done"} =>
        /\ verdict = "ok" => report = NoReport
        /\ Judged =>
             /\ verdict = "ok" <=> (report.failures = 0 /\ report.created_wip = 0)
             /\ report.failures > 0 => verdict = "panic_failures"
             /\ report.failures = 0 /\ report.created_wip > 0 => verdict = "panic_wip"

\* C5 witness: no failure, but a provisional snapshot, and run panicked
C5_Witness ==
    /\ rpc = "done"
    /\ verdict = "panic_wip"
    /\ report.failures = 0

\* C6: when the batch is over, every test of the expanded set was processed
\* and the Report counts exactly the tests that failed.
C6_FailureIsolated ==
    rpc = "verdict" =>
        /\ Len(outcomes) = Len(tests)
        /\ report.failures = Cardinality({i \in 1..Len(outcomes) : outcomes[i] \in Errors})

\* the fixture of SpecFixture was a CompileFail fixture whose build failed,
\* and it has been processed under the given update policy
StderrText == FromUtf8Lossy(script.answer.build.stderr)
InitialFs == [EmptyFs EXCEPT !.snap[FixturePath] = script.snap0]

BuildFailedCase(update) ==
    /\ script.scripted
    /\ tests[1].expected = "CompileFail"
    /\ project.update = update
    /\ script.answer.exists
    /\ script.answer.zxc = "ok"
    /\ script.answer.spawn = "ok"
    /\ ~script.answer.build.success
    /\ Len(outcomes) = 1

NoFault == script.answer.build.fault = "none"

\* C7: a CompileFail fixture whose build fails and whose snapshot equals the
\* line-ending-normalized stderr is Passed, under both update policies.
C7_EqualSnapshotPasses ==
    \A u \in {"Wip", "Overwrite"} :
        /\ BuildFailedCase(u)
        /\ NoFault
        /\ script.snap0.exists
        /\ script.snap0.data = ReplaceCRLF(StderrText)
        => outcomes[1] = "Passed"

C10_ProvisionalSnapshotWritten ==
    /\ BuildFailedCase("Wip")
    /\ NoFault
    /\ ~script.snap0.exists
    => /\ outcomes[1] = "CreatedWip"
       /\ fs.wipdir
       /\ fs.gitignore = File(<<"*", "LF">>)
       /\ fs.wip[WipName(FixturePath)] = File(StderrText)
       /\ fs.snap[FixturePath] = Absent
       /\ raReport = [failures |-> 0, created_wip |-> 1]
       /\ rpc \in {"verdict", "drop", "done"} => report = raReport
       /\ rpc \in {"drop", "done"} => verdict = "panic_wip"

\* C10 witness: the run of such a fixture is over
C10_Witness ==
    /\ BuildFailedCase("Wip")
    /\ NoFault
    /\ ~script.snap0.exists
    /\ rpc = "done"
    /\ script.answer.build.stderr = <<"CR", "LF">>

\* the fixture of SpecFixture has been built (the file existed, the driver
\* was started) and has been processed
BuiltCase(expected, success) ==
    /\ script.scripted
    /\ tests[1].expected = expected
    /\ script.answer.exists
    /\ script.answer.zxc = "ok"
    /\ script.answer.spawn = "ok"
    /\ script.answer.build.success = success
    /\ Len(outcomes) = 1

\* C11: under both update policies a CompileFail fixture whose build
\* succeeds ends in ShouldNotHaveCompiled: 1 failure, 0 provisional
\* snapshots, run panics, and no snapshot file (canonical or wip) is probed,
\* read, created or modified.
C11_ShouldNotHaveCompiled ==
    BuiltCase("CompileFail", TRUE) =>
        /\ outcomes[1] = "ShouldNotHaveCompiled"
        /\ raReport = [failures |-> 1, created_wip |-> 0]
        /\ rpc \in {"verdict", "drop", "done"} => report = raReport
        /\ rpc \in {"drop", "done"} => verdict = "panic_failures"
        /\ fs = InitialFs
        /\ \A w \in work : w.kind \notin {"stat", "read", "write"}

\* C11 witness: such a run is over, in overwrite mode, next to a snapshot
C11_Witness ==
    /\ BuiltCase("CompileFail", TRUE)
    /\ project.update = "Overwrite"
    /\ script.snap0.exists
    /\ rpc = "done"

\* C12: a Pass fixture run by Runner::run whose build fails ends in
\* CargoFail (BuildFailed) without the artifact being executed; when the
\* build succeeds the artifact is executed, and the fixture ends in RunFailed
\* when its exit status is non-zero, in Passed with Report {0, 0} and a
\* normal return of run when it is zero.
C12_PassFixture ==
    /\ BuiltCase("Pass", FALSE) =>
          /\ outcomes[1] = "CargoFail"
          /\ \A w \in work : w.kind # "exec"
          /\ raReport = [failures |-> 1, created_wip |-> 0]
    /\ BuiltCase("Pass", TRUE) /\ script.answer.build.exec = "nonzero" =>
          /\ outcomes[1] = "RunFailed"
          /\ \E w \in work : w.kind = "exec"
          /\ raReport = [failures |-> 1, created_wip |-> 0]
    /\ BuiltCase("Pass", TRUE) /\ script.answer.build.exec = "exit0" =>
          /\ outcomes[1] = "Passed"
          /\ \E w \in work : w.kind = "exec"
          /\ raReport = NoReport
          /\ rpc \in {"verdict", "drop", "done"} => report = NoReport
          /\ rpc \in {"drop", "done"} => verdict = "ok"

\* C12 witness: a Pass fixture was built, its artifact exited with 0 and
\* run returned
C12_Witness ==
    /\ BuiltCase("Pass", TRUE)
    /\ script.answer.build.exec = "exit0"
    /\ \E w \in work : w.kind = "exec"
    /\ rpc = "done"
    /\ verdict = "ok"

\* the positions of the FromGlob entries of vec with the given path
GlobEntries(v, path) == {i \in 1..Len(v) : v[i].is_from_glob /\ v[i].path = path}

\* C13: the expanded set never holds two FromGlob entries with the same
\* path, and inserting a glob match whose path already has a FromGlob entry
\* replaces that entry's expectation and nothing else: same length, same
\* names, paths, origins, errors and order.
C13_GlobDedup ==
    [][/\ \A p \in GlobFiles : Cardinality(GlobEntries(set'.vec, p)) <= 1
       /\ (epc = "insert" /\ GlobEntries(set.vec, Head(pending)) # {}) =>
             /\ Len(set'.vec) = Len(set.vec)
             /\ \A i \in 1..Len(set.vec) :
                  /\ set'.vec[i].name = set.vec[i].name
                  /\ set'.vec[i].path = set.vec[i].path
                  /\ set'.vec[i].is_from_glob = set.vec[i].is_from_glob
                  /\ set'.vec[i].error = set.vec[i].error
                  /\ set'.vec[i].expected =
                       IF i \in GlobEntries(set.vec, Head(pending))
                       THEN intents[ip].expected
                       ELSE set.vec[i].expected]_vars

\* C13 witness: two globs matched x/a.rs; the second one only changed the
\* expectation of the entry the first one made
C13_Witness ==
    /\ epc = "done"
    /\ intents = <<[path |-> "x/*.rs", expected |-> "CompileFail"],
                   [path |-> "x/a*.rs", expected |-> "Pass"]>>
    /\ files = [present |-> {"x/a.rs", "x/b.rs"}, readable |-> TRUE]
    /\ Len(set.vec) = 2
    /\ set.vec[1].expected = "Pass"
    /\ set.vec[1].is_from_glob
    /\ set.vec[2].expected = "CompileFail"

\* C14 as stated: no two entries of the expanded set have the same path.
C14_Original ==
    \A i, j \in 1..Len(set.vec) : i < j => set.vec[i].path # set.vec[j].path

\* C14 amended: two entries of the expanded set have the same path only if
\* the earlier of the two is of Literal origin; a path that has a FromGlob
\* entry gets no further entry.
C14_DuplicateOnlyAfterLiteral ==
    \A i, j \in 1..Len(set.vec) :
        i < j /\ set.vec[i].path = set.vec[j].path => ~set.vec[i].is_from_glob

\* C14 witness: a literal intent for x/a.rs followed by a glob matching it
\* and by a second literal gave two entries, the literal one and the glob's
C14_Witness ==
    /\ epc = "done"
    /\ Len(intents) = 3
    /\ intents[1].path = "x/a.rs"
    /\ intents[2].path = "x/a*.rs"
    /\ intents[3].path = "x/a.rs"
    /\ Len(set.vec) = 2
    /\ set.vec[1].path = set.vec[2].path
    /\ ~set.vec[1].is_from_glob
    /\ set.vec[2].is_from_glob

\* C15: a literal intent is never merged into another entry: handling it
\* appends one new entry of Literal origin with its path and expectation
\* and leaves every earlier entry as it was, also when a glob already
\* produced an entry for that path.
C15_LiteralNeverMerged ==
    [][(epc = "intent" /\ ip <= Len(intents) /\ ~HasWildcard(intents[ip].path)) =>
          /\ Len(set'.vec) = Len(set.vec) + 1
          /\ SubSeq(set'.vec, 1, Len(set.vec)) = set.vec
          /\ set'.vec[Len(set'.vec)].path = intents[ip].path
          /\ set'.vec[Len(set'.vec)].expected = intents[ip].expected
          /\ ~set'.vec[Len(set'.vec)].is_from_glob]_vars

\* the number a three-digit ordinal name spells
OrdinalOf(name) == 100 * name[2] + 10 * name[3] + name[4]

\* C16: the entry at position i (counted from 0) is named "trybuild" followed
\* by the three-digit decimal spelling of i, so the names are pairwise
\* distinct and their numbers are exactly 0..n-1, whatever glob hits were
\* deduplicated on the way.
C16_OrdinalNames ==
    /\ \A i \in 1..Len(set.vec) :
          /\ Len(set.vec[i].name) = 4
          /\ set.vec[i].name[1] = "trybuild"
          /\ \A k \in 2..4 : set.vec[i].name[k] \in 0..9
          /\ OrdinalOf(set.vec[i].name) = i - 1
    /\ \A i, j \in 1..Len(set.vec) : i # j => set.vec[i].name # set.vec[j].name

\* C16 witness: an entry was pushed after a deduplicated glob hit and got
\* the next number
C16_Witness ==
    /\ epc = "done"
    /\ Len(intents) = 3
    /\ intents[1].path = "x/*.rs"
    /\ intents[2].path = "x/a*.rs"
    /\ intents[3].path = "x/[*.rs"
    /\ files = [present |-> {"x/a.rs", "x/b.rs"}, readable |-> TRUE]
    /\ Len(set.vec) = 3
    /\ set.vec[3].name = <<"trybuild", 0, 0, 2>>
    /\ set.vec[3].error = "Pattern"

\* what an expansion produced: the sequence of (ordinal name, path,
\* expectation)
Expanded(s) ==
    [i \in 1..Len(s.vec) |->
        <<s.vec[i].name, s.vec[i].path, s.vec[i].expected>>]

\* C17: two expansions of the same intents over the same directory content
\* produce the same sequence of (ordinal name, path, expectation) at every
\* point, whatever order the directory walk of each glob yields its paths
\* in.
C17_ExpansionDeterministic == Expanded(set) = Expanded(setB)

\* C17 witness: the walks of a glob yielded x/a.rs and x/b.rs in opposite
\* orders in the two expansions, which are over
C17_Witness ==
    /\ epc = "done"
    /\ walk = <<"x/b.rs", "x/a.rs">>
    /\ walkB = <<"x/a.rs", "x/b.rs">>
    /\ Len(set.vec) >= 2
    /\ \E i \in 1..Len(set.vec) : set.vec[i].is_from_glob

\* C18: Diff::compute returns a diff exactly when the combined length of
\* the two strings is at most 2048 and five times the summed length of
\* their common chunks is at least four times the length of the longer
\* one (equality included); above 2048 it returns none whatever the
\* similarity.
C18_DiffGate ==
    diffOut # None =>
        LET e == SumLen(diffIn.chunks, {"Equal", "Delete"})
            a == SumLen(diffIn.chunks, {"Equal", "Insert"})
            common == SumLen(diffIn.chunks, {"Equal"})
        IN /\ e + a > 2048 => diffOut = "None"
           /\ ~diffIn.panics =>
                (diffOut = "Some" <=>
                    (e + a <= 2048 /\ 5 * common >= 4 * (IF e >= a THEN e ELSE a)))

\* C18 witness: a pair exactly at the ratio (common 4, longer side 5) was
\* given a diff
C18_Witness ==
    /\ diffOut = "Some"
    /\ ~diffIn.panics
    /\ diffIn.chunks = <<[kind |-> "Equal", len |-> 4], [kind |-> "Delete", len |-> 1]>>

\* the configuration of the run is invalid: the working directory cannot
\* be determined, or TRYBUILD is set to something else than wip, overwrite
InvalidConfig == ~cwdOk \/ envVar \notin {"unset", "wip", "overwrite"}

\* C19: with an invalid configuration Runner::run panics in its
\* preparation: Lock::acquire is never called (no lock file is created), no
\* test is processed, no driver is invoked and no snapshot is probed, read
\* or written.  Otherwise unset and "wip" select Update::Wip and
\* "overwrite" selects Update::Overwrite.
C19_InvalidConfigAborts ==
    /\ InvalidConfig =>
          /\ rpc \in {"start", "done"}
          /\ rpc = "done" => verdict = "panic_prepare"
          /\ acquires = 0
          /\ lpc[Runner] = "idle"
          /\ flock[Runner] = "NotLocked"
          /\ via[Runner] = None
          /\ outcomes = <<>>
          /\ work = {}
          /\ report = NoReport
    /\ (~InvalidConfig /\ rpc # "start") =>
          project.update = (IF envVar = "overwrite" THEN "Overwrite" ELSE "Wip")

\* C19 witness: a run over two tests with TRYBUILD=bogus has panicked
C19_Witness ==
    /\ envVar = "bogus"
    /\ Len(tests) = 2
    /\ rpc = "done"
    /\ verdict = "panic_prepare"
    /\ acquires = 0

\* C20: when run_all comes to a test that carries an error from the
\* expansion, or whose file does not exist then, it invokes no driver and
\* touches no file, adds exactly 1 to the failures of its Report (and
\* nothing to the provisional snapshots), and goes on with the next test.
C20_PreErrorCountsOnce ==
    [][(/\ rpc = "run_all"
        /\ idx <= Len(tests)
        /\ tests[idx].error # None \/ idx \in missing') =>
          /\ raReport' = [raReport EXCEPT !.failures = @ + 1]
          /\ work' = work
          /\ fs' = fs
          /\ Len(outcomes') = Len(outcomes) + 1
          /\ outcomes'[Len(outcomes')] \in Errors
          /\ idx' = idx + 1
          /\ rpc' = "run_all"]_vars

\* C20 witness: the file of the first of two tests was missing; the second
\* was built and passed, and the Report counts one failure
C20_Witness ==
    /\ Len(tests) = 2
    /\ missing = {1}
    /\ outcomes = <<"Open", "Passed">>
    /\ \E w \in work : w.kind = "driver" /\ w.test = 2
    /\ \A w \in work : w.test # 1
    /\ rpc = "done"
    /\ report = [failures |-> 1, created_wip |-> 0]

\* C21: an acquirer whose create() gave up on an I/O error (creating the
\* file, reading its metadata, recreating it) still gets its Lock: it holds
\* the in-process guard, has no file layer and no heartbeat, and when the
\* Lock is released no done flag is set and remove_file is not called.
C21_DegradedLock ==
    \A a \in Acq :
        via[a] = "degraded" =>
            /\ lpc[a] \in {"held", "dropGuard", "released", "dead"}
            /\ lpc[a] \in {"held", "dropGuard"} => mutexOwner[ProcOf(a)] = a
            /\ flock[a] = "NotLocked"
            /\ hb[a] = None
            /\ ~done[a]
            /\ removeRes[a] = None

\* C21 witness: a degraded Lock was held and released next to a lock file
\* that is still there
C21_Witness ==
    \E a \in Acq :
        /\ via[a] = "degraded"
        /\ lpc[a] = "released"
        /\ lockfile.exists

\* a thread that has the MutexGuard of its process: from Guard::acquire to
\* the drop of the guard
HasGuard(a) ==
    lpc[a] \in {"open", "meta", "steal", "sleep", "spawn", "held",
                "dropStore", "dropRemove", "dropGuard"}

\* C22: two live threads of one process never have the in-process guard at
\* the same time, the thread that has it is the owner of the mutex, and a
\* thread waiting in Guard::acquire leaves it only with the guard, also
\* when the mutex was poisoned by a holder that panicked.
C22_GuardExclusionSurvivesPoison ==
    /\ [](\A a, b \in Acq :
            /\ HasGuard(a) => mutexOwner[ProcOf(a)] = a
            /\ (a # b /\ ProcOf(a) = ProcOf(b)) => ~(HasGuard(a) /\ HasGuard(b)))
    /\ [][\A a \in Acq :
            (lpc[a] = "guard" /\ lpc'[a] \notin {"guard", "dead"}) =>
                /\ mutexOwner[ProcOf(a)] = None
                /\ lpc'[a] = "open"
                /\ mutexOwner'[ProcOf(a)] = a]_vars

\* C22 witness: a thread panicked while holding the Lock, which poisoned
\* the mutex, and another thread of the process holds the Lock now
C22_Witness ==
    \E a, b \in Acq :
        /\ a # b
        /\ ProcOf(a) = ProcOf(b)
        /\ lpc[a] = "released"
        /\ unwinding[a]
        /\ poisoned[ProcOf(a)]
        /\ lpc[b] = "held"
        /\ mutexOwner[ProcOf(b)] = b

\* the poll() thread of an acquirer is running
Polling(a) == hb[a] \in {"sleep", "set_len"}

\* C23: when every thread runs on schedule, the poll() thread is gone at
\* most one sleep interval (500 ms) after the done flag was set; it leaves
\* its sleep for the exit when the flag is set and for set_len(0) when it
\* is not, and never runs again after the exit; and as long as it runs for
\* a held Lock, the lock file it has open was truncated within the last
\* interval.
C23_HeartbeatStops ==
    /\ [](\A a \in Acq :
            /\ (done[a] /\ Polling(a)) => doneAge[a] <= PollInterval
            /\ (Holds(a) /\ Polling(a) /\ handle[a] /\ lockfile.exists) =>
                  lockfile.age <= PollInterval)
    /\ [][\A a \in Acq :
            /\ (hb[a] = "sleep" /\ hb'[a] # "sleep" /\ lpc'[a] # "dead") =>
                  hb'[a] = (IF done[a] THEN "exited" ELSE "set_len")
            /\ hb[a] = "exited" => hb'[a] = "exited"]_vars

\* C23 witness: the done flag was set 500 ms ago and the poll() thread,
\* whose sleep is over, is about to see it
C23_Witness ==
    \E a \in Acq :
        /\ lpc[a] = "released"
        /\ done[a]
        /\ hb[a] = "sleep"
        /\ hbTimer[a] = 0
        /\ doneAge[a] = PollInterval


\* a holder of the file layer whose poll() thread is running for it
LiveHolder(a) == Holds(a) /\ Polling(a) /\ handle[a] /\ ~done[a]

\* C24: a live holder is never robbed.  When every thread runs on schedule,
\* the lock file of a live holder never looks stale (more than 1500 ms old
\* or more than 1500 ms in the future), and no other acquirer completes the
\* steal branch of create(), File::create(path), while the holder still
\* holds the lock.
C24_LiveHolderNeverRobbed ==
    /\ [](\A a \in Acq :
            (LiveHolder(a) /\ lockfile.exists) => ~IsStale(lockfile.age))
    /\ [][\A a, b \in Acq :
            (a # b /\ LiveHolder(a) /\ lpc[b] = "steal" /\ via'[b] = "stolen") =>
                lpc'[b] # "spawn"]_vars

\* a run of drop called Lock::acquire once, unless prepare failed before,
\* and when the run was over its Lock was gone: released, or never returned
OwnLock(r) ==
    /\ r.acquires \in {0, 1}
    /\ r.acquires = 0 => r.lpc = "idle"
    /\ r.acquires = 1 => r.lpc \in {"failed", "released"}
    /\ r.guard = None

\* C25: the drop of a TestCases starts no run when the thread is panicking;
\* otherwise it runs the batch with backend "cranelift" first and with
\* backend "llvm" second, never in another order and never more often; each
\* run calls Lock::acquire itself and has released its Lock when it is
\* over; and the second run is started exactly when the first returned,
\* with zero failures and zero provisional snapshots.
C25_DropRunsTwice ==
    /\ threadPanicking => (runs = <<>> /\ rpc = "idle" /\ acquires = 0 /\ codegen = "none")
    /\ Len(runs) <= 2
    /\ dpc \in {"start", "first"} => runs = <<>>
    /\ dpc = "first" => codegen = "cranelift"
    /\ dpc = "second" => (Len(runs) = 1 /\ codegen = "llvm")
    /\ Len(runs) >= 1 => (runs[1].codegen = "cranelift" /\ runs[1].lock = "t1")
    /\ Len(runs) = 2 => (runs[2].codegen = "llvm" /\ runs[2].lock = "t2")
    /\ \A i \in 1..Len(runs) : OwnLock(runs[i])
    /\ (dpc = "second" \/ Len(runs) = 2) =>
          /\ runs[1].verdict = "ok"
          /\ runs[1].report = NoReport
          /\ lpc["t1"] = "released"
    /\ (dpc = "done" /\ Len(runs) = 1) => runs[1].verdict # "ok"
    /\ (dpc = "done" /\ ~threadPanicking) => Len(runs) >= 1

\* C25 witness: both runs are over, each after holding a Lock of its own
C25_Witness ==
    /\ dpc = "done"
    /\ Len(runs) = 2
    /\ runs[1].acquires = 1 /\ runs[1].lpc = "released"
    /\ runs[2].acquires = 1 /\ runs[2].lpc = "released"
    /\ Len(tests) > 0

====
